---- MODULE Spec2Model ----
(***************************************************************************)
(* A model of the command-line utilities of the repository:                *)
(*   - the Layer Resolver        (src/scripts/resolveLayers.py)            *)
(*   - the Tenant Provisioner    (src/scripts/create_tenant.py)            *)
(*   - the Onboarding Cleanup    (src/scripts/cleanup_onboard.py)          *)
(* The utilities share no state; each has its own variables and its own    *)
(* specification: SpecResolver for the resolver, SpecTenant for a whole    *)
(* run of the provisioner, SpecCopy for the provisioner's copy of one      *)
(* template item, SpecCleanup for a whole run of the cleanup.  A           *)
(* specification holds the variables of the other utilities at their idle  *)
(* values.                                                                 *)
(***************************************************************************)
EXTENDS Integers, Sequences, FiniteSets, TLC

VARIABLES
    \* ---- Layer Resolver ----
    localData,      \* data['locals']: a sequence of entries (JSON objects)
    stacks,         \* the seven category stacks read from the environment
    scanI,          \* index of the next entry of localData the scan loop visits
    enabledKeys,    \* the list enabledKeys
    enabledMap,     \* the dict enabledMap (key -> path)
    layers,         \* the seven *_layers lists
    output,         \* what the script printed
    rpc,            \* position of the script
    \* ---- Tenant Provisioner ----
    env,            \* the environment variables the provisioner reads
    template,       \* template-repo/: the tenant tree and the workflow files
    self,           \* the TenantCreator object's fields
    tpc,            \* position of the provisioner
    exitCode,       \* the process's exit status, once it has exited
    exitAt,         \* the step the process exited in
    branch,         \* the local feature branch
    tenantDir,      \* files under tenant/<tenant_name>/
    workflowsDir,   \* files this run wrote under .github/workflows/
    wfLog,          \* what happened to the primary and the fallback workflow copy
    commits,        \* commits made by this run
    pushes,         \* push invocations made by this run, with their results
    prAttempts,     \* create_pull calls made by this run, with their head references
    gitRef,         \* outcome of create_git_ref, if it was called
    pr,             \* the pull request this run created
    \* ---- Onboarding Cleanup ----
    cenv,           \* what the cleanup finds: repository, branch, file, credential
    cself,          \* the OnboardingCleanup object's fields
    cpc,            \* position of the cleanup
    cexit,          \* the process's exit status, once it has exited
    checkedOut,     \* how the branch was checked out, if it was
    trackingCreated,\* a local tracking branch was created from the remote
    fileOnDisk,     \* onboarding_workflow.yml is in the working tree
    staged,         \* the deletion of the file is in the index
    file_deleted,   \* the local file_deleted of cleanup()
    ccommits,       \* commits made by this run
    cpushes,        \* push invocations made by this run, with their results
    comment,        \* how add_cleanup_comment ended, if it was called
    comments        \* the comment bodies this run posted on the pull request

rvars == <<localData, stacks, scanI, enabledKeys, enabledMap, layers, output, rpc>>
tvars == <<env, template, self, tpc, exitCode, exitAt, branch, tenantDir, workflowsDir,
           wfLog, commits, pushes, prAttempts, gitRef, pr>>
cvars == <<cenv, cself, cpc, cexit, checkedOut, trackingCreated, fileOnDisk, staged,
           file_deleted, ccommits, cpushes, comment, comments>>
vars == <<rvars, tvars, cvars>>

Range(s) == {s[i] : i \in 1..Len(s)}

(***************************************************************************)
(*                            LAYER RESOLVER                               *)
(***************************************************************************)

\* Bounds of the resolver's inputs.
MaxEntries == 2
MaxEntryKeys == 2

Categories ==
    {"metadata", "datadog", "baseline", "networking", "tableau", "abc", "datalake"}

\* Keys occurring in locals documents, and keys occurring in stacks.
LocalKeys == {"networking", "datadog"}

\* JSON values of an entry's key.  A value is a scalar or an object; an object
\* may carry an `enabled` field (truthy or falsy) and a `path` field.
NoPath == "None"
ScalarValue   == [isDict |-> FALSE, hasEnabled |-> FALSE, enabled |-> FALSE, path |-> NoPath]
EmptyBlock    == [isDict |-> TRUE,  hasEnabled |-> FALSE, enabled |-> FALSE, path |-> NoPath]
DisabledBlock == [isDict |-> TRUE,  hasEnabled |-> TRUE,  enabled |-> FALSE, path |-> NoPath]
EnabledBlock  == [isDict |-> TRUE,  hasEnabled |-> TRUE,  enabled |-> TRUE,  path |-> "net/"]
LocalValues == {ScalarValue, EmptyBlock, DisabledBlock, EnabledBlock}

\* An entry is a JSON object: its keys in document order, each with a value.
\* It is a sequence of <<key, value>> pairs with distinct keys.
DistinctKeys(x) == \A a, b \in 1..Len(x) : x[a][1] = x[b][1] => a = b
Entries ==
    {x \in UNION {[1..n -> LocalKeys \X LocalValues] : n \in 0..MaxEntryKeys} :
        DistinctKeys(x)}
LocalsDocuments == UNION {[1..n -> Entries] : n \in 0..MaxEntries}

HasKey(x, key) == \E a \in 1..Len(x) : x[a][1] = key
Get(x, key) == x[CHOOSE a \in 1..Len(x) : x[a][1] = key][2]

\* The environments the stacks are read from.
StackEnv(net, dd, rest) ==
    [c \in Categories |->
        IF c = "networking" THEN net ELSE IF c = "datadog" THEN dd ELSE rest]
StackEnvs ==
    { StackEnv(<<"networking", "other">>, <<"datadog">>, <<>>),
      StackEnv(<<"datadog", "networking">>, <<"networking", "datadog">>, <<"other">>),
      StackEnv(<<"networking", "datadog", "networking">>, <<>>, <<"datadog", "other", "networking">>) }

\* dict.setdefault(key, value)
SetDefault(m, key, value) == IF key \in DOMAIN m THEN m ELSE m @@ (key :> value)

\* The body of the inner loop (lines 34-40) for one key of the current entry.
\* The value is looked up in localData[0], the FIRST entry, whatever entry the
\* key comes from; a key the first entry lacks raises KeyError.
ScanKey(ld, key, acc) ==
    IF acc.status # "ok" THEN acc
    ELSE IF ~HasKey(ld[1], key) THEN [acc EXCEPT !.status = "KeyError"]
    ELSE LET internalData == Get(ld[1], key) IN
         IF internalData.isDict /\ internalData.hasEnabled /\ internalData.enabled
         THEN [acc EXCEPT !.enabledKeys = Append(@, key),
                          !.enabledMap = SetDefault(@, key, internalData.path)]
         ELSE acc

\* The inner loop (line 33) over the keys of entry x, from its j-th key on.
RECURSIVE ScanEntryKeys(_, _, _, _)
ScanEntryKeys(ld, x, j, acc) ==
    IF j > Len(x) THEN acc
    ELSE ScanEntryKeys(ld, x, j + 1, ScanKey(ld, x[j][1], acc))

\* The outer loop (line 31) from entry i on.
RECURSIVE ScanFrom(_, _, _)
ScanFrom(ld, i, acc) ==
    IF i > Len(ld) THEN acc
    ELSE ScanFrom(ld, i + 1, ScanEntryKeys(ld, ld[i], 1, acc))

EmptyMap == [k \in {} |-> NoPath]
ScanStart == [status |-> "ok", enabledKeys |-> <<>>, enabledMap |-> EmptyMap]

\* The whole scan of a locals document (lines 26-40).
ScanLocals(ld) == ScanFrom(ld, 1, ScanStart)

\* The alternate revision of the filter: the enabled keys that are in the stack,
\* in the enabled list's order.
RECURSIVE getEnabledKeysByEnabledOrder(_, _)
getEnabledKeysByEnabledOrder(stack, enabledKeyList) ==
    IF enabledKeyList = <<>> THEN <<>>
    ELSE (IF Head(enabledKeyList) \in Range(stack) THEN <<Head(enabledKeyList)>> ELSE <<>>)
         \o getEnabledKeysByEnabledOrder(stack, Tail(enabledKeyList))

\* getEnabledKeysFromStack (lines 7-12): the loop over the stack, appending each
\* stack key found in the enabled list.
RECURSIVE getEnabledKeysFromStack(_, _)
getEnabledKeysFromStack(stack, enabledKeyList) ==
    IF stack = <<>> THEN <<>>
    ELSE (IF Head(stack) \in Range(enabledKeyList) THEN <<Head(stack)>> ELSE <<>>)
         \o getEnabledKeysFromStack(Tail(stack), enabledKeyList)

NoLayers == [c \in Categories |-> <<>>]
NoOutput == [printed |-> FALSE, filepath_map |-> EmptyMap, layers |-> NoLayers]

ResolverStart ==
    /\ localData \in LocalsDocuments
    /\ stacks \in StackEnvs
    /\ scanI = 1
    /\ enabledKeys = <<>>
    /\ enabledMap = EmptyMap
    /\ layers = NoLayers
    /\ output = NoOutput
    /\ rpc = "scan"

ResolverIdle ==
    /\ localData = <<>>
    /\ stacks = NoLayers
    /\ scanI = 1
    /\ enabledKeys = <<>>
    /\ enabledMap = EmptyMap
    /\ layers = NoLayers
    /\ output = NoOutput
    /\ rpc = "idle"

\* One iteration of the outer loop (lines 31-40): every key of entry scanI.  An
\* unhandled KeyError ends the process with a traceback and no output.
ScanEntry ==
    /\ UNCHANGED <<tvars, cvars>>
    /\ rpc = "scan"
    /\ scanI <= Len(localData)
    /\ LET acc == ScanEntryKeys(localData, localData[scanI], 1,
                    [status |-> "ok", enabledKeys |-> enabledKeys, enabledMap |-> enabledMap])
       IN IF acc.status = "ok"
          THEN /\ enabledKeys' = acc.enabledKeys
               /\ enabledMap' = acc.enabledMap
               /\ scanI' = scanI + 1
               /\ rpc' = "scan"
          ELSE /\ rpc' = "KeyError"
               /\ UNCHANGED <<enabledKeys, enabledMap, scanI>>
    /\ UNCHANGED <<localData, stacks, layers, output>>

\* Lines 52-58: the seven layer lists.
ResolveLayers ==
    /\ UNCHANGED <<tvars, cvars>>
    /\ rpc = "scan"
    /\ scanI > Len(localData)
    /\ layers' = [c \in Categories |-> getEnabledKeysFromStack(stacks[c], enabledKeys)]
    /\ rpc' = "print"
    /\ UNCHANGED <<localData, stacks, scanI, enabledKeys, enabledMap, output>>

\* Lines 60-67: the labelled output lines.
PrintOutput ==
    /\ UNCHANGED <<tvars, cvars>>
    /\ rpc = "print"
    /\ output' = [printed |-> TRUE, filepath_map |-> enabledMap, layers |-> layers]
    /\ rpc' = "done"
    /\ UNCHANGED <<localData, stacks, scanI, enabledKeys, enabledMap, layers>>

ResolverNext == ScanEntry \/ ResolveLayers \/ PrintOutput

(***************************************************************************)
(*                          TENANT PROVISIONER                             *)
(***************************************************************************)

\* Bounds of the template tree: tokens per template file, and directory depth.
MaxTokens == 2
MaxDepth == 1

\* An environment variable that is not set (os.getenv gives None).
Unset == "<unset>"
Falsy(v) == v = Unset \/ v = ""

\* str.upper() and str.lower() on the strings of the model.
Upper(str) ==
    CASE str = "acme"  -> "ACME"
      [] str = "proj"  -> "PROJ"
      [] str = "True"  -> "TRUE"
      [] str = "False" -> "FALSE"
      [] str = "true"  -> "TRUE"
      [] str = "false" -> "FALSE"
      [] OTHER -> str
Lower(str) ==
    CASE str = "True"  -> "true"
      [] str = "False" -> "false"
      [] str = "TRUE"  -> "true"
      [] str = "FALSE" -> "false"
      [] OTHER -> str
\* str(b) of a Python bool.
PyStr(b) == IF b THEN "True" ELSE "False"

(* File contents.  A content is a sequence of pieces:                      *)
(*   text   literal text                                                   *)
(*   ph     the token {{v}}, spelled without blanks                        *)
(*   if     the block {% if v %}<departure block>{% endif %}               *)
(*   expr   the expression ${{ v }} of a workflow file, v a dotted name    *)
(*   bytes  bytes that are no valid UTF-8                                  *)
(* Rendering and replacing keep one piece per piece of the source, so the  *)
(* i-th piece of an output is what the i-th piece of its source became.    *)
Text(str) == [k |-> "text", v |-> str]
Ph(name) == [k |-> "ph", v |-> name]
IfBlock(var) == [k |-> "if", v |-> var]
Expr(str) == [k |-> "expr", v |-> str]
Bytes(str) == [k |-> "bytes", v |-> str]

DepartureBlock == "departure-block"

\* The placeholder spellings of _replace_placeholders, in the dict's order.
PlaceholderOrder ==
    << "tenant_name", "name", "project_name", "dev_network_range", "stage_network_range",
       "enable_departure", "enable_avscan", "TENANT_NAME", "PROJECT_NAME",
       "DEV_NETWORK_RANGE", "STAGE_NETWORK_RANGE", "ENABLE_DEPARTURE", "ENABLE_AVSCAN" >>
PlaceholderNames == Range(PlaceholderOrder)

\* The dict `placeholders` (lines 196-210): spelling -> value.
placeholders(s) ==
    [n \in PlaceholderNames |->
        CASE n = "tenant_name"         -> s.tenant_name
          [] n = "name"                -> s.tenant_name
          [] n = "project_name"        -> s.project_name
          [] n = "dev_network_range"   -> s.dev_network_range
          [] n = "stage_network_range" -> s.stage_network_range
          [] n = "enable_departure"    -> Lower(PyStr(s.enable_departure))
          [] n = "enable_avscan"       -> Lower(PyStr(s.enable_avscan))
          [] n = "TENANT_NAME"         -> Upper(s.tenant_name)
          [] n = "PROJECT_NAME"        -> Upper(s.project_name)
          [] n = "DEV_NETWORK_RANGE"   -> s.dev_network_range
          [] n = "STAGE_NETWORK_RANGE" -> s.stage_network_range
          [] n = "ENABLE_DEPARTURE"    -> Upper(PyStr(s.enable_departure))
          [] n = "ENABLE_AVSCAN"       -> Upper(PyStr(s.enable_avscan))]

\* content.replace(placeholder, value) for one placeholder.
StrReplace(content, name, value) ==
    [i \in 1..Len(content) |-> IF content[i] = Ph(name) THEN Text(value) ELSE content[i]]

\* The loop of lines 213-214 from the j-th placeholder on.
RECURSIVE ReplaceFrom(_, _, _)
ReplaceFrom(s, content, j) ==
    IF j > Len(PlaceholderOrder) THEN content
    ELSE ReplaceFrom(s, StrReplace(content, PlaceholderOrder[j],
                                   placeholders(s)[PlaceholderOrder[j]]), j + 1)

\* _replace_placeholders (lines 194-216).
_replace_placeholders(s, content) == ReplaceFrom(s, content, 1)

\* The variables template.render is given (lines 179-187).
JinjaBools == {"enable_departure", "enable_avscan", "departure_enabled"}
JinjaStrings == {"tenant_name", "project_name", "dev_network_range", "stage_network_range"}
JinjaBool(s, var) ==
    CASE var = "enable_departure"  -> s.enable_departure
      [] var = "enable_avscan"     -> s.enable_avscan
      [] var = "departure_enabled" -> s.enable_departure
JinjaString(s, var) ==
    CASE var = "tenant_name"         -> s.tenant_name
      [] var = "project_name"        -> s.project_name
      [] var = "dev_network_range"   -> s.dev_network_range
      [] var = "stage_network_range" -> s.stage_network_range

\* What the template engine makes of one piece.  {{v}} prints the variable v,
\* a bool as str() prints it, and an undefined variable as the empty string;
\* a block is kept when its variable is true and dropped when it is false or
\* undefined.
JinjaRender(s, piece) ==
    CASE piece.k = "ph" ->
            Text(IF piece.v \in JinjaStrings THEN JinjaString(s, piece.v)
                 ELSE IF piece.v \in JinjaBools THEN PyStr(JinjaBool(s, piece.v))
                 ELSE "")
      [] piece.k = "if" ->
            Text(IF piece.v \in JinjaBools /\ JinjaBool(s, piece.v)
                 THEN DepartureBlock ELSE "")
      [] OTHER -> piece

\* ${{ secrets.X }} reads an attribute of an undefined variable: render raises.
JinjaRaises(content) == \E i \in 1..Len(content) : content[i].k = "expr"

\* _process_jinja_template (lines 171-192): the rendered content, or the content
\* as it was when from_string or render raises.
_process_jinja_template(s, content) ==
    IF JinjaRaises(content) THEN content
    ELSE [i \in 1..Len(content) |-> JinjaRender(s, content[i])]

\* open(source_file, encoding='utf-8').read() raises on bytes that are no UTF-8.
ReadRaises(content) == \E i \in 1..Len(content) : content[i].k = "bytes"

\* A written file: its content, the template content it came from, and how it
\* was written ("rendered" by lines 141-153, "copy2" by line 158).
WrittenFile(source, content, how) == [source |-> source, content |-> content, how |-> how]

\* _copy_and_replace_placeholders (lines 137-158) on the files of st, where
\* st.raised says that an exception is propagating.  The destination can be
\* written or not; where it cannot, shutil.copy2 raises too and the exception
\* leaves the method.
_copy_and_replace_placeholders(s, source, dest, writable, st) ==
    IF st.raised THEN st
    ELSE IF ~ReadRaises(source) /\ writable
         THEN [st EXCEPT !.files = (dest :> WrittenFile(source,
                    _replace_placeholders(s, _process_jinja_template(s, source)),
                    "rendered")) @@ @]
    ELSE IF writable
         THEN [st EXCEPT !.files = (dest :> WrittenFile(source, source, "copy2")) @@ @]
    ELSE [st EXCEPT !.raised = TRUE]

\* A template item is a file or a directory of items.
FileItem(name, content) == [kind |-> "file", name |-> name, content |-> content]
DirItem(name, children) == [kind |-> "dir", name |-> name, children |-> children]

\* The loop over iterdir() of lines 79-87 and 164-169, from the i-th item on,
\* and with it _copy_directory_with_placeholders (lines 160-169), which is the
\* same loop on a subdirectory.
RECURSIVE _copy_directory_with_placeholders(_, _, _, _, _, _)
_copy_directory_with_placeholders(s, items, i, destDir, writable, st) ==
    IF i > Len(items) \/ st.raised THEN st
    ELSE LET item == items[i]
             dest == Append(destDir, item.name)
         IN _copy_directory_with_placeholders(s, items, i + 1, destDir, writable,
                IF item.kind = "file"
                THEN _copy_and_replace_placeholders(s, item.content, dest, writable, st)
                ELSE IF writable
                     THEN _copy_directory_with_placeholders(s, item.children, 1, dest,
                                                            writable, st)
                     ELSE [st EXCEPT !.raised = TRUE])

\* item.name.replace('{{name}}', self.tenant_name) (lines 106, 122).
DestFilename(s, name) == StrReplace(name, "name", s.tenant_name)

\* The loop over the workflow templates (lines 103-109 and 120-125) from the i-th
\* file on; the first okFiles files can be written, the next one cannot.
RECURSIVE CopyWorkflowFiles(_, _, _, _, _, _)
CopyWorkflowFiles(s, items, i, destDir, okFiles, st) ==
    IF i > Len(items) \/ st.raised THEN st
    ELSE CopyWorkflowFiles(s, items, i + 1, destDir, okFiles,
            IF items[i].kind = "file"
            THEN _copy_and_replace_placeholders(s, items[i].content,
                    Append(destDir, DestFilename(s, items[i].name)), i <= okFiles, st)
            ELSE st)

\* _get_workflow_status_message (lines 218-225).  workflows_copied is True,
\* "fallback" or False in the source; here "True", "fallback" and "False".
StatusCopied == "Copied workflows from template-repo/workflows/"
StatusFallback == "Created workflows in tenant/workflows/ (manual copy required)"
StatusSkipped == "Workflows skipped (insufficient permissions)"
StatusMessageTruthy(s) ==
    IF s.workflows_copied # "False" THEN StatusCopied ELSE StatusSkipped
_get_workflow_status_message(s) ==
    IF s.workflows_copied = "True" THEN StatusCopied
    ELSE IF s.workflows_copied = "fallback" THEN StatusFallback
    ELSE StatusSkipped

\* _get_workflow_pr_message (lines 227-239).
PrCopied == "Generated workflow from template"
PrFallback == "Workflows created in tenant workflows/ (requires manual copy to .github/workflows/)"
PrSkipped == "Workflow generation skipped due to insufficient permissions"
_get_workflow_pr_message(s) ==
    [ text |-> IF s.workflows_copied = "True" THEN PrCopied
               ELSE IF s.workflows_copied = "fallback" THEN PrFallback
               ELSE PrSkipped,
      tenant |-> s.tenant_name ]

\* The environments the provisioner is started in.
Environments ==
    [ TENANT_NAME         : {Unset, "", "acme"},
      PROJECT_NAME        : {Unset, "", "proj"},
      DEV_NETWORK_RANGE   : {Unset, "", "10.0.0.0/16"},
      STAGE_NETWORK_RANGE : {Unset, "", "10.1.0.0/16"},
      ENABLE_DEPARTURE    : {Unset, "True", "false"},
      ENABLE_AVSCAN       : {Unset, "true"},
      GITHUB_TOKEN        : {Unset, "token"},
      GITHUB_REPOSITORY   : {Unset, "owner/repo"},
      SKIP_WORKFLOWS      : {Unset, "true"} ]

\* os.getenv(name, 'false').lower() == 'true'
EnvFlag(value) == Lower(IF value = Unset THEN "false" ELSE value) = "true"

\* The list given to all() at lines 37-38.
RequiredInputsWithoutStage(e) ==
    <<e.TENANT_NAME, e.PROJECT_NAME, e.DEV_NETWORK_RANGE, e.GITHUB_TOKEN>>
RequiredInputs(e) ==
    <<e.TENANT_NAME, e.PROJECT_NAME, e.DEV_NETWORK_RANGE, e.STAGE_NETWORK_RANGE,
      e.GITHUB_TOKEN>>
\* Python's all() on that list.
All(list) == \A i \in 1..Len(list) : ~Falsy(list[i])

NoBranchName == <<>>
\* The fields __init__ sets (lines 27-34, 57).
NewSelf(e) ==
    [ tenant_name         |-> e.TENANT_NAME,
      project_name        |-> e.PROJECT_NAME,
      dev_network_range   |-> e.DEV_NETWORK_RANGE,
      stage_network_range |-> e.STAGE_NETWORK_RANGE,
      enable_departure    |-> EnvFlag(e.ENABLE_DEPARTURE),
      enable_avscan       |-> EnvFlag(e.ENABLE_AVSCAN),
      github_repository   |-> e.GITHUB_REPOSITORY,
      workflows_copied    |-> "False",
      branch_name         |-> NoBranchName ]
NoSelf ==
    [ tenant_name |-> Unset, project_name |-> Unset, dev_network_range |-> Unset,
      stage_network_range |-> Unset, enable_departure |-> FALSE, enable_avscan |-> FALSE,
      github_repository |-> Unset, workflows_copied |-> "False",
      branch_name |-> NoBranchName ]

\* f"feature/tenant-{self.tenant_name}" (line 243)
BranchName(s) == <<"feature/tenant-", s.tenant_name>>
\* The two head references of lines 432-435.
PlainHead(s) == [owner |-> "", branch |-> s.branch_name]
OwnerHeadUnqualified(s) == [owner |-> "", branch |-> s.branch_name]
OwnerHead(s) ==
    [owner |-> IF s.github_repository = "owner/repo" THEN "owner" ELSE s.github_repository,
     branch |-> s.branch_name]

\* template-repo/ as the repository holds it: a tenant tree with a file and a
\* subdirectory, and two workflow templates.
TenantTree ==
    << FileItem(<<Text("tenant.yml")>>, <<Ph("tenant_name"), Ph("dev_network_range")>>),
       DirItem(<<Text("env")>>,
           << FileItem(<<Text("stage.tfvars")>>,
                       <<Ph("stage_network_range"), IfBlock("enable_departure")>>) >>) >>
WorkflowFiles ==
    << FileItem(<<Text("tenant_"), Ph("name"), Text(".yml")>>,
                <<Ph("name"), Expr("secrets.GITHUB_TOKEN")>>),
       FileItem(<<Text("tenant_"), Ph("name"), Text("_deploy.yml")>>,
                <<Ph("TENANT_NAME"), Expr("github.ref")>>) >>
Templates ==
    { [tenant_exists |-> te, tenant |-> IF te THEN TenantTree ELSE <<>>,
       workflows_exists |-> we, workflows |-> IF we THEN WorkflowFiles ELSE <<>>] :
        te \in BOOLEAN, we \in BOOLEAN }

NoBranch == [existed |-> FALSE, created |-> FALSE, checkedOut |-> FALSE]
NoFiles == <<>>
NoWfLog == [primary |-> "none", fallback |-> "none"]
NoPr == [created |-> FALSE, head |-> [owner |-> "", branch |-> NoBranchName],
         workflow_message |-> [text |-> "", tenant |-> Unset]]

\* The state of the repository and of the review service before a run.
Untouched ==
    /\ exitCode = -1
    /\ exitAt = "none"
    /\ branch = NoBranch
    /\ tenantDir = NoFiles
    /\ workflowsDir = NoFiles
    /\ wfLog = NoWfLog
    /\ commits = <<>>
    /\ pushes = <<>>
    /\ prAttempts = <<>>
    /\ gitRef = "none"
    /\ pr = NoPr

TenantStart ==
    /\ env \in Environments
    /\ template \in Templates
    /\ self = NoSelf
    /\ tpc = "init"
    /\ Untouched

TenantIdle ==
    /\ env = [n \in DOMAIN NoSelf |-> Unset]
    /\ template = [tenant_exists |-> FALSE, tenant |-> <<>>,
                   workflows_exists |-> FALSE, workflows |-> <<>>]
    /\ self = NoSelf
    /\ tpc = "idle"
    /\ Untouched

\* sys.exit(code) in step `at`, or an unhandled exception there.
Exit(code, at) == tpc' = "exit" /\ exitCode' = code /\ exitAt' = at

\* __init__ (lines 25-57): validation, then the API and repository handles.
\* get_repo and git.Repo can raise; nothing catches that, the process ends with
\* a traceback and status 1.
Construct ==
    /\ UNCHANGED <<rvars, cvars>>
    /\ tpc = "init"
    /\ IF ~All(RequiredInputs(env))
       THEN Exit(1, "validate") /\ UNCHANGED self
       ELSE \E handlesOk \in BOOLEAN :
              IF handlesOk /\ env.GITHUB_REPOSITORY # Unset
              THEN /\ self' = NewSelf(env)
                   /\ tpc' = "create_branch"
                   /\ UNCHANGED <<exitCode, exitAt>>
              ELSE Exit(1, "init") /\ UNCHANGED self
    /\ UNCHANGED <<env, template, branch, tenantDir, workflowsDir, wfLog, commits,
                   pushes, prAttempts, gitRef, pr>>

\* create_branch (lines 241-266), after print_inputs.
CreateBranch ==
    /\ UNCHANGED <<rvars, cvars>>
    /\ tpc = "create_branch"
    /\ \E existed \in BOOLEAN, outcome \in {"ok", "create_failed", "checkout_failed"} :
         /\ branch' = [existed |-> existed,
                       created |-> ~existed /\ outcome # "create_failed",
                       checkedOut |-> outcome = "ok"]
         /\ IF outcome = "ok"
            THEN /\ self' = [self EXCEPT !.branch_name = BranchName(self)]
                 /\ tpc' = "copy_tenant"
                 /\ UNCHANGED <<exitCode, exitAt>>
            ELSE Exit(1, "create_branch") /\ UNCHANGED self
    /\ UNCHANGED <<env, template, tenantDir, workflowsDir, wfLog, commits, pushes,
                   prAttempts, gitRef, pr>>

\* copy_template, the tenant tree (lines 72-89).  An exception leaves
\* copy_template and run() exits with status 1.
CopyTenantTemplate ==
    /\ UNCHANGED <<rvars, cvars>>
    /\ tpc = "copy_tenant"
    /\ \E writable \in BOOLEAN :
         LET st0 == [raised |-> ~writable, files |-> tenantDir]
             st == IF template.tenant_exists
                   THEN _copy_directory_with_placeholders(self, template.tenant, 1, <<>>,
                                                          writable, st0)
                   ELSE st0
         IN /\ tenantDir' = st.files
            /\ IF st.raised
               THEN Exit(1, "copy_template")
               ELSE tpc' = "copy_workflows" /\ UNCHANGED <<exitCode, exitAt>>
    /\ UNCHANGED <<env, template, self, branch, workflowsDir, wfLog, commits, pushes,
                   prAttempts, gitRef, pr>>

WorkflowsFallbackDir == << <<Text("workflows")>> >>

\* copy_template, the workflow files (lines 91-135): the primary location, the
\* fallback under the tenant directory when the primary copy raises, and the
\* outcome recorded in workflows_copied.
CopyWorkflowTemplates ==
    /\ UNCHANGED <<rvars, cvars>>
    /\ tpc = "copy_workflows"
    /\ \E okPrimary \in 0..Len(template.workflows),
          okFallback \in 0..Len(template.workflows),
          mkdirOk \in BOOLEAN :
         LET n == Len(template.workflows)
             p == CopyWorkflowFiles(self, template.workflows, 1, <<>>, okPrimary,
                                    [raised |-> FALSE, files |-> workflowsDir])
             f == CopyWorkflowFiles(self, template.workflows, 1, WorkflowsFallbackDir,
                                    okFallback, [raised |-> ~mkdirOk, files |-> tenantDir])
         IN IF EnvFlag(env.SKIP_WORKFLOWS) \/ ~template.workflows_exists
            THEN /\ self' = [self EXCEPT !.workflows_copied = "False"]
                 /\ UNCHANGED <<workflowsDir, tenantDir, wfLog>>
            ELSE IF ~p.raised
            THEN /\ workflowsDir' = p.files
                 /\ self' = [self EXCEPT !.workflows_copied = "True"]
                 /\ wfLog' = [primary |-> "ok", fallback |-> "none"]
                 /\ UNCHANGED tenantDir
            ELSE /\ workflowsDir' = p.files
                 /\ tenantDir' = f.files
                 /\ self' = [self EXCEPT !.workflows_copied =
                                IF f.raised THEN "False" ELSE "fallback"]
                 /\ wfLog' = [primary |-> "failed",
                              fallback |-> IF f.raised THEN "failed" ELSE "ok"]
    /\ tpc' = "create_tenant_workflows"
    /\ UNCHANGED <<env, template, exitCode, exitAt, branch, commits, pushes, prAttempts,
                   gitRef, pr>>

\* create_tenant_workflows (lines 268-274) only prints.
CreateTenantWorkflows ==
    /\ UNCHANGED <<rvars, cvars>>
    /\ tpc = "create_tenant_workflows"
    /\ tpc' = "commit"
    /\ UNCHANGED <<env, template, self, exitCode, exitAt, branch, tenantDir, workflowsDir,
                   wfLog, commits, pushes, prAttempts, gitRef, pr>>

\* commit_and_push, the commit (lines 280-302): git add -A stages every file of
\* the working tree, and the message carries the workflow status.
Commit ==
    /\ UNCHANGED <<rvars, cvars>>
    /\ tpc = "commit"
    /\ \E ok \in BOOLEAN :
         IF ok
         THEN /\ commits' = Append(commits,
                    [ tenant |-> self.tenant_name,
                      workflow_status |-> _get_workflow_status_message(self),
                      tenant_files |-> DOMAIN tenantDir,
                      workflow_files |-> DOMAIN workflowsDir ])
              /\ tpc' = "push"
              /\ UNCHANGED <<exitCode, exitAt>>
         ELSE Exit(1, "commit") /\ UNCHANGED commits
    /\ UNCHANGED <<env, template, self, branch, tenantDir, workflowsDir, wfLog, pushes,
                   prAttempts, gitRef, pr>>

\* What a push invocation can come to: success, a result carrying the ERROR
\* flag, or an exception.
PushResults == {"ok", "error_flag", "raised"}

\* The first push has failed (lines 318-321, 332): it raised, or a result carries
\* the ERROR flag, which the loop over push_info turns into an exception.
PushFailedOnRaiseOnly(result) == result = "raised"
PushFailed(result) == result # "ok"

\* commit_and_push, the push (lines 305-330): a forced push with an explicit
\* refspec; a result carrying the ERROR flag is turned into an exception.  The
\* fetch that verifies the push changes nothing, whatever it comes to.
Push ==
    /\ UNCHANGED <<rvars, cvars>>
    /\ tpc = "push"
    /\ \E result \in PushResults :
         /\ pushes' = Append(pushes, [refspec |-> "branch:branch", force |-> TRUE,
                                       result |-> result])
         /\ tpc' = IF PushFailed(result) THEN "alt_push" ELSE "create_pr"
    /\ UNCHANGED <<env, template, self, exitCode, exitAt, branch, tenantDir, workflowsDir,
                   wfLog, commits, prAttempts, gitRef, pr>>

\* commit_and_push, the alternative push (lines 332-347): the results are
\* printed and not inspected; only an exception fails the run.
AltPush ==
    /\ UNCHANGED <<rvars, cvars>>
    /\ tpc = "alt_push"
    /\ \E result \in PushResults :
         /\ pushes' = Append(pushes, [refspec |-> "branch", force |-> TRUE,
                                       result |-> result])
         /\ IF result = "raised"
            THEN Exit(1, "push")
            ELSE tpc' = "create_pr" /\ UNCHANGED <<exitCode, exitAt>>
    /\ UNCHANGED <<env, template, self, branch, tenantDir, workflowsDir, wfLog, commits,
                   prAttempts, gitRef, pr>>

\* repo.create_pull with the given head (lines 443-448, 477-482).
NewPr(s, head) ==
    [created |-> TRUE, head |-> head, workflow_message |-> _get_workflow_pr_message(s)]

\* create_pull_request, one turn of the loop over head_refs_to_try (lines
\* 440-453): the plain branch name first, the owner-qualified one second.  The
\* checks of lines 404-429 before it only print.
PrTryHead ==
    /\ UNCHANGED <<rvars, cvars>>
    /\ tpc \in {"create_pr", "pr_owner"}
    /\ \E ok \in BOOLEAN :
         LET head == IF tpc = "create_pr" THEN PlainHead(self) ELSE OwnerHead(self)
         IN /\ prAttempts' = Append(prAttempts, [head |-> head, ok |-> ok])
            /\ IF ok
               THEN /\ pr' = NewPr(self, head)
                    /\ tpc' = "done"
                    /\ exitCode' = 0
                    /\ UNCHANGED exitAt
               ELSE /\ tpc' = IF tpc = "create_pr" THEN "pr_owner" ELSE "pr_ref"
                    /\ UNCHANGED <<pr, exitCode, exitAt>>
    /\ UNCHANGED <<env, template, self, branch, tenantDir, workflowsDir, wfLog, commits,
                   pushes, gitRef>>

\* create_pull_request, the branch reference (lines 456-470, 485-491).
PrCreateRef ==
    /\ UNCHANGED <<rvars, cvars>>
    /\ tpc = "pr_ref"
    /\ \E ok \in BOOLEAN :
         /\ gitRef' = IF ok THEN "created" ELSE "failed"
         /\ IF ok
            THEN tpc' = "pr_retry" /\ UNCHANGED <<exitCode, exitAt>>
            ELSE Exit(1, "create_pull_request")
    /\ UNCHANGED <<env, template, self, branch, tenantDir, workflowsDir, wfLog, commits,
                   pushes, prAttempts, pr>>

\* create_pull_request, the last attempt (lines 476-503).
PrRetry ==
    /\ UNCHANGED <<rvars, cvars>>
    /\ tpc = "pr_retry"
    /\ \E ok \in BOOLEAN :
         /\ prAttempts' = Append(prAttempts, [head |-> PlainHead(self), ok |-> ok])
         /\ IF ok
            THEN /\ pr' = NewPr(self, PlainHead(self))
                 /\ tpc' = "done"
                 /\ exitCode' = 0
                 /\ UNCHANGED exitAt
            ELSE Exit(1, "create_pull_request") /\ UNCHANGED pr
    /\ UNCHANGED <<env, template, self, branch, tenantDir, workflowsDir, wfLog, commits,
                   pushes, gitRef>>

TenantNext ==
    \/ Construct
    \/ CreateBranch
    \/ CopyTenantTemplate
    \/ CopyWorkflowTemplates
    \/ CreateTenantWorkflows
    \/ Commit
    \/ Push
    \/ AltPush
    \/ PrTryHead
    \/ PrCreateRef
    \/ PrRetry

(* The copy of one template item, from the state create_branch leaves: every  *)
(* content of up to MaxTokens pieces, in a file nested up to MaxDepth deep.   *)
Pieces ==
    {Text("x"), Expr("secrets.TOKEN"), Bytes("ff"), Ph("unknown_value")}
    \cup {Ph(n) : n \in PlaceholderNames}
    \cup {IfBlock(v) : v \in {"enable_departure", "departure_enabled"}}
Contents == UNION {[1..n -> Pieces] : n \in 0..MaxTokens}

RECURSIVE Nested(_, _)
Nested(depth, item) ==
    IF depth = 0 THEN item ELSE DirItem(<<Text("dir")>>, <<Nested(depth - 1, item)>>)

ValidEnvironments ==
    {e \in Environments : All(RequiredInputs(e)) /\ e.GITHUB_REPOSITORY # Unset}

CopyStart ==
    /\ env \in {e \in ValidEnvironments : e.SKIP_WORKFLOWS = Unset}
    /\ \E content \in Contents, depth \in 0..MaxDepth :
         template = [tenant_exists |-> TRUE,
                     tenant |-> <<Nested(depth, FileItem(<<Text("file")>>, content))>>,
                     workflows_exists |-> FALSE, workflows |-> <<>>]
    /\ self = [NewSelf(env) EXCEPT !.branch_name = BranchName(NewSelf(env))]
    /\ tpc = "copy_tenant"
    /\ exitCode = -1
    /\ exitAt = "none"
    /\ branch = [existed |-> FALSE, created |-> TRUE, checkedOut |-> TRUE]
    /\ tenantDir = NoFiles
    /\ workflowsDir = NoFiles
    /\ wfLog = NoWfLog
    /\ commits = <<>>
    /\ pushes = <<>>
    /\ prAttempts = <<>>
    /\ gitRef = "none"
    /\ pr = NoPr

CopyNext == CopyTenantTemplate

(***************************************************************************)
(*                         ONBOARDING CLEANUP                              *)
(***************************************************************************)

\* What a run can find.  validRepo: Repo(repo_path) opens (line 37); token:
\* GITHUB_TOKEN is set (line 47); githubRemote: the remote URL names a GitHub
\* repository that get_repo returns (lines 52-70); local: the branch is among
\* the local heads; remote: origin/<branch> is among the remote references;
\* hasFile: the branch's tree holds the onboarding workflow file; openPr: the
\* branch has an open pull request.
CleanupEnvs ==
    [ validRepo : BOOLEAN, token : BOOLEAN, githubRemote : BOOLEAN, local : BOOLEAN,
      remote : BOOLEAN, hasFile : BOOLEAN, openPr : BOOLEAN ]

\* The branch name given on the command line (lines 290-297).
CleanupBranch == "feature/tenant-acme"

NoCleanup == [branch_name |-> "", github_client |-> FALSE]

\* self.github_client is not None (lines 47-76): a token, and a GitHub remote whose
\* repository the API returns.
github_client(e) == e.token /\ e.githubRemote

CleanupStart ==
    /\ cenv \in CleanupEnvs
    /\ cself = NoCleanup
    /\ cpc = "init"
    /\ cexit = -1
    /\ checkedOut = "none"
    /\ trackingCreated = FALSE
    /\ fileOnDisk = FALSE
    /\ staged = FALSE
    /\ file_deleted = "unset"
    /\ ccommits = <<>>
    /\ cpushes = <<>>
    /\ comment = "none"
    /\ comments = <<>>

CleanupIdle ==
    /\ cenv = [ validRepo |-> FALSE, token |-> FALSE, githubRemote |-> FALSE,
                local |-> FALSE, remote |-> FALSE, hasFile |-> FALSE, openPr |-> FALSE ]
    /\ cself = NoCleanup
    /\ cpc = "idle"
    /\ cexit = -1
    /\ checkedOut = "none"
    /\ trackingCreated = FALSE
    /\ fileOnDisk = FALSE
    /\ staged = FALSE
    /\ file_deleted = "unset"
    /\ ccommits = <<>>
    /\ cpushes = <<>>
    /\ comment = "none"
    /\ comments = <<>>

\* sys.exit(code) of main (lines 327-337).
CleanupExit(code) == cpc' = "exit" /\ cexit' = code

\* main and __init__ (lines 32-76, 309-316): an invalid repository raises, which
\* main turns into status 1; a missing token or an unusable remote only leaves
\* github_client at None.
CleanupConstruct ==
    /\ UNCHANGED <<rvars, tvars>>
    /\ cpc = "init"
    /\ IF cenv.validRepo
          THEN /\ cself' = [branch_name |-> CleanupBranch,
                            github_client |-> github_client(cenv)]
               /\ cpc' = "check_branch"
               /\ UNCHANGED cexit
          ELSE CleanupExit(1) /\ UNCHANGED cself
    /\ UNCHANGED <<cenv, checkedOut, trackingCreated, fileOnDisk, staged, file_deleted,
                   ccommits, cpushes, comment, comments>>

\* check_branch_exists (lines 78-103): a local head, or after a fetch that did not
\* raise, a remote reference of that name.
check_branch_assumed(local, remote, fetchOk) == TRUE
check_branch_exists(local, remote, fetchOk) == local \/ (fetchOk /\ remote)

\* Step 1 of cleanup (lines 257-259).
CheckBranchExists ==
    /\ UNCHANGED <<rvars, tvars>>
    /\ cpc = "check_branch"
    /\ \E fetchOk \in BOOLEAN :
         IF check_branch_exists(cenv.local, cenv.remote, fetchOk)
            THEN cpc' = "checkout" /\ UNCHANGED cexit
            ELSE CleanupExit(1)
    /\ UNCHANGED <<cenv, cself, checkedOut, trackingCreated, fileOnDisk, staged,
                   file_deleted, ccommits, cpushes, comment, comments>>

\* How the creation of the tracking branch can end (lines 116-122): the fetch
\* raises; create_head raises; the branch is created and set_tracking_branch or
\* checkout raises; all of it succeeds.  create_head needs the remote reference.
TrackingOutcomes(e) ==
    {"fetch_raised", "create_raised"} \cup
    (IF e.remote THEN {"checkout_raised", "ok"} ELSE {})

\* Step 2 of cleanup, checkout_branch (lines 105-132, 262-264).
CheckoutBranch ==
    /\ UNCHANGED <<rvars, tvars>>
    /\ cpc = "checkout"
    /\ IF cenv.local
          THEN /\ \E ok \in BOOLEAN :
                    IF ok THEN /\ checkedOut' = "local"
                               /\ fileOnDisk' = cenv.hasFile
                               /\ cpc' = "delete"
                               /\ UNCHANGED cexit
                          ELSE /\ CleanupExit(1)
                               /\ UNCHANGED <<checkedOut, fileOnDisk>>
               /\ UNCHANGED trackingCreated
          ELSE \E outcome \in TrackingOutcomes(cenv) :
                 /\ trackingCreated' = (outcome \in {"checkout_raised", "ok"})
                 /\ IF outcome = "ok"
                       THEN /\ checkedOut' = "tracking"
                            /\ fileOnDisk' = cenv.hasFile
                            /\ cpc' = "delete"
                            /\ UNCHANGED cexit
                       ELSE /\ CleanupExit(1)
                            /\ UNCHANGED <<checkedOut, fileOnDisk>>
    /\ UNCHANGED <<cenv, cself, staged, file_deleted, ccommits, cpushes, comment,
                   comments>>

\* How delete_onboarding_file can end when the file exists (lines 137-152):
\* unlink raises; unlink succeeds and index.remove raises; both succeed.  The
\* first two return False from the except branch.
DeleteOutcomes == {"unlink_raised", "remove_raised", "deleted"}

\* `if file_deleted:` (line 272)
CommitAlways(deleted) == TRUE
ShouldCommit(deleted) == deleted = "True"

\* Step 3 of cleanup, delete_onboarding_file (lines 134-152, 267-272).
DeleteOnboardingFile ==
    /\ UNCHANGED <<rvars, tvars>>
    /\ cpc = "delete"
    /\ IF fileOnDisk
          THEN \E outcome \in DeleteOutcomes :
                 /\ fileOnDisk' = (outcome = "unlink_raised")
                 /\ staged' = (outcome = "deleted")
                 /\ file_deleted' = IF outcome = "deleted" THEN "True" ELSE "False"
          ELSE /\ file_deleted' = "False"
               /\ UNCHANGED <<fileOnDisk, staged>>
    /\ cpc' = IF ShouldCommit(file_deleted') THEN "commit" ELSE "comment"
    /\ UNCHANGED <<cenv, cself, cexit, checkedOut, trackingCreated, ccommits, cpushes,
                   comment, comments>>

\* git_repo.is_dirty() or untracked files (line 158): the staged deletion, or
\* the tracked file missing from the working tree.
is_dirty == staged \/ (cenv.hasFile /\ ~fileOnDisk)

\* Step 4 of cleanup, commit_changes (lines 154-179, 273-275).
CommitChanges ==
    /\ UNCHANGED <<rvars, tvars>>
    /\ cpc = "commit"
    /\ \E ok \in BOOLEAN :
         IF is_dirty /\ ok
            THEN /\ ccommits' = Append(ccommits, [branch |-> cself.branch_name,
                                                  removes_file |-> staged])
                 /\ staged' = FALSE
                 /\ cpc' = "push"
                 /\ UNCHANGED cexit
            ELSE /\ CleanupExit(1)
                 /\ UNCHANGED <<ccommits, staged>>
    /\ UNCHANGED <<cenv, cself, checkedOut, trackingCreated, fileOnDisk, file_deleted,
                   cpushes, comment, comments>>

\* push_changes returns True unless the push raised (lines 186-202): the flags
\* of the result are only logged.
push_changes(result) == result # "raised"

\* Step 5 of cleanup, push_changes (lines 181-202, 278-280).
PushChanges ==
    /\ UNCHANGED <<rvars, tvars>>
    /\ cpc = "push"
    /\ \E result \in PushResults :
         /\ cpushes' = Append(cpushes, [branch |-> cself.branch_name, result |-> result])
         /\ IF push_changes(result)
               THEN cpc' = "comment" /\ UNCHANGED cexit
               ELSE CleanupExit(1)
    /\ UNCHANGED <<cenv, cself, checkedOut, trackingCreated, fileOnDisk, staged,
                   file_deleted, ccommits, comment, comments>>

\* The body of the comment (lines 220-240): it says that the file was deleted
\* and that the cleanup was committed to the branch, whatever the run did.
comment_body(s) == [deleted |-> TRUE, committed |-> TRUE, branch |-> s.branch_name]

\* How add_cleanup_comment can end (lines 204-248).
CommentOutcomes(s, e) ==
    IF ~s.github_client THEN {"no_client"}
    ELSE {"error"} \cup (IF e.openPr THEN {"posted"} ELSE {"no_pr"})

\* cleanup() returns True after the comment step, whatever it returned
\* (lines 283-286).
CleanupResultOfComment(posted) == posted
CleanupResult(posted) == TRUE

\* Step 6 of cleanup, add_cleanup_comment, and the exit of main
\* (lines 204-248, 283-286, 327-332).
AddCleanupComment ==
    /\ UNCHANGED <<rvars, tvars>>
    /\ cpc = "comment"
    /\ \E outcome \in CommentOutcomes(cself, cenv) :
         /\ comment' = outcome
         /\ comments' = IF outcome = "posted"
                           THEN Append(comments, comment_body(cself))
                           ELSE comments
         /\ CleanupExit(IF CleanupResult(outcome = "posted") THEN 0 ELSE 1)
    /\ UNCHANGED <<cenv, cself, checkedOut, trackingCreated, fileOnDisk, staged,
                   file_deleted, ccommits, cpushes>>

CleanupNext ==
    \/ CleanupConstruct
    \/ CheckBranchExists
    \/ CheckoutBranch
    \/ DeleteOnboardingFile
    \/ CommitChanges
    \/ PushChanges
    \/ AddCleanupComment

(***************************************************************************)
(*                           SPECIFICATIONS                                *)
(***************************************************************************)

\* The Layer Resolver on every locals document and stack environment.
ResolverInit == ResolverStart /\ TenantIdle /\ CleanupIdle
SpecResolver == ResolverInit /\ [][ResolverNext]_vars

\* The Tenant Provisioner from process start, on the repository's template.
TenantInit == TenantStart /\ ResolverIdle /\ CleanupIdle
SpecTenant == TenantInit /\ [][TenantNext]_vars

\* The Tenant Provisioner's copy of one template item of any content.
CopyInit == CopyStart /\ ResolverIdle /\ CleanupIdle
SpecCopy == CopyInit /\ [][CopyNext]_vars

\* The Onboarding Cleanup from process start, on every repository situation.
CleanupInit == CleanupStart /\ ResolverIdle /\ TenantIdle
SpecCleanup == CleanupInit /\ [][CleanupNext]_vars

(***************************************************************************)
(*                   LAYER RESOLVER: CLAIMS C1 - C4                        *)
(***************************************************************************)

Truthy(v) == v.isDict /\ v.hasEnabled /\ v.enabled

\* The document and stacks of the example of C1.
C1Document ==
    << << <<"networking", EnabledBlock>> >>, << <<"datadog", DisabledBlock>> >> >>
C1Input ==
    /\ localData = C1Document
    /\ stacks["networking"] = <<"networking", "other">>
    /\ stacks["datadog"] = <<"datadog">>

\* C1: on the locals document [{networking: {enabled: true, path: "net/"}},
\* {datadog: {enabled: false}}] with networking_stack = [networking, other] and
\* datadog_stack = [datadog], the resolver runs to completion (it never ends in
\* an unhandled error) and prints networking_layers = [networking] and
\* datadog_layers = [].
C1_ExampleRunsToCompletion ==
    C1Input =>
        /\ rpc # "KeyError"
        /\ rpc = "done" =>
              /\ output.printed
              /\ output.layers["networking"] = <<"networking">>
              /\ output.layers["datadog"] = <<>>

\* C2: when the resolver has finished, a key of the document is in the enabled
\* set if and only if some entry, at whatever position, gives that key an object
\* whose enabled field is truthy.
C2_EnabledIffTruthy ==
    rpc = "done" =>
        \A i \in 1..Len(localData) : \A a \in 1..Len(localData[i]) :
            LET key == localData[i][a][1] IN
            (key \in Range(enabledKeys)) <=>
                (\E j \in 1..Len(localData) :
                    HasKey(localData[j], key) /\ Truthy(Get(localData[j], key)))

\* C3: when the resolver has finished, the list printed for each of the seven
\* stacks is exactly the stack's elements that are members of the enabled set,
\* in the stack's order, one output element per stack element.
C3_CategoryResult ==
    rpc = "done" =>
        \A c \in Categories :
            output.layers[c] = SelectSeq(stacks[c], LAMBDA k : k \in Range(enabledKeys))

\* A finished run whose enabled list holds a repeat and two keys in an order
\* other than a stack's, with a key reported for two stacks and a stack element
\* filtered out.
C3_Witness ==
    /\ rpc = "done"
    /\ \E a, b \in 1..Len(enabledKeys) : a # b /\ enabledKeys[a] = enabledKeys[b]
    /\ enabledKeys[1] = "networking" /\ "datadog" \in Range(enabledKeys)
    /\ output.layers["networking"] = <<"datadog", "networking">>
    /\ output.layers["datadog"] = <<"networking", "datadog">>
    /\ stacks["metadata"] = <<"other">> /\ output.layers["metadata"] = <<>>

PermutationsOf(s) ==
    { [i \in 1..Len(s) |-> s[p[i]]] :
        p \in {q \in [1..Len(s) -> 1..Len(s)] : \A a, b \in 1..Len(s) : q[a] = q[b] => a = b} }

\* C4: when the resolver has finished, a run on any permutation of the locals
\* sequence that finishes too has the same set of enabled keys and prints the
\* same seven lists.
C4_OrderIndependent ==
    rpc = "done" =>
        \A p \in PermutationsOf(localData) :
            LET r == ScanLocals(p) IN
            r.status = "ok" =>
                /\ Range(r.enabledKeys) = Range(enabledKeys)
                /\ \A c \in Categories :
                      getEnabledKeysFromStack(stacks[c], r.enabledKeys) = output.layers[c]

(***************************************************************************)
(*                 TENANT PROVISIONER: CLAIMS C5 - C10                     *)
(***************************************************************************)

MissingRequired(e) ==
    \/ Falsy(e.TENANT_NAME)
    \/ Falsy(e.PROJECT_NAME)
    \/ Falsy(e.DEV_NETWORK_RANGE)
    \/ Falsy(e.STAGE_NETWORK_RANGE)

\* No branch created or checked out, no file written, nothing committed or
\* pushed, no pull request attempted or created.
NoMutation ==
    /\ branch = NoBranch
    /\ tenantDir = NoFiles
    /\ workflowsDir = NoFiles
    /\ commits = <<>>
    /\ pushes = <<>>
    /\ prAttempts = <<>>
    /\ gitRef = "none"
    /\ pr = NoPr

\* C5: when the tenant name, the project name, the development network range or
\* the stage network range is missing or empty, the run never gets past
\* validation: it performs no mutation, and once it has ended it has exited
\* with a non-zero status.
C5_ValidationBeforeMutation ==
    MissingRequired(env) =>
        /\ NoMutation
        /\ tpc \in {"init", "exit"}
        /\ tpc = "exit" => exitCode # 0

\* A run with only the stage network range empty, ended by the validation.
C5_Witness ==
    /\ ~Falsy(env.TENANT_NAME) /\ ~Falsy(env.PROJECT_NAME) /\ ~Falsy(env.DEV_NETWORK_RANGE)
    /\ env.STAGE_NETWORK_RANGE = ""
    /\ env.GITHUB_TOKEN # Unset
    /\ tpc = "exit" /\ exitCode = 1 /\ exitAt = "validate"

Recognized(piece) == piece.k = "ph" /\ piece.v \in PlaceholderNames

\* C6: in every file written through the two substitution passes, each token of
\* the placeholder set has become the value the placeholder mapping gives it
\* (the upper-case spellings the upper-cased value).
C6_PlaceholderMapping ==
    \A path \in DOMAIN tenantDir :
        LET f == tenantDir[path] IN
        f.how = "rendered" =>
            \A i \in 1..Len(f.source) :
                Recognized(f.source[i]) =>
                    f.content[i] = Text(placeholders(self)[f.source[i].v])

\* C7: a token {{unknown_value}}, whose name is not in the placeholder set, is in
\* the written file as it was in the template.
C7_UnmatchedVerbatim ==
    \A path \in DOMAIN tenantDir :
        LET f == tenantDir[path] IN
        \A i \in 1..Len(f.source) :
            f.source[i] = Ph("unknown_value") => f.content[i] = Ph("unknown_value")

\* C8: no file of the tenant directory holds a token of the placeholder set,
\* whatever path of the per-file copy wrote it.
C8_NoRecognizedTokenLeft ==
    \A path \in DOMAIN tenantDir :
        \A i \in 1..Len(tenantDir[path].content) : ~Recognized(tenantDir[path].content[i])

\* The departure block is in a piece of output: rendered, or still wrapped in
\* its conditional.
HoldsDepartureBlock(piece) == piece = Text(DepartureBlock) \/ piece.k = "if"

\* C9: in every file written through the rendering step, a block wrapped in a
\* conditional on the departure flag is in the output if and only if the
\* departure flag is true.
C9_DepartureBlockIffFlag ==
    \A path \in DOMAIN tenantDir :
        LET f == tenantDir[path] IN
        f.how = "rendered" =>
            \A i \in 1..Len(f.source) :
                f.source[i].k = "if" =>
                    (HoldsDepartureBlock(f.content[i]) <=> self.enable_departure)

FallbackPaths ==
    {Append(WorkflowsFallbackDir, DestFilename(self, template.workflows[i].name)) :
        i \in 1..Len(template.workflows)}

\* C10: once the copy of the workflow files to .github/workflows has failed, the
\* recorded outcome is "fallback" with the files under the tenant directory's
\* workflows/, or skipped when that copy failed too; the run is not ended by the
\* copy, it ends only in the commit, the push or the pull request; and every
\* commit message and the pull request body carry the text of the recorded
\* outcome, never the text of a copy to the primary location.
C10_WorkflowFallback ==
    wfLog.primary = "failed" =>
        /\ self.workflows_copied = IF wfLog.fallback = "ok" THEN "fallback" ELSE "False"
        /\ wfLog.fallback = "ok" => FallbackPaths \subseteq DOMAIN tenantDir
        /\ tpc # "copy_workflows"
        /\ tpc = "exit" => exitAt \in {"commit", "push", "create_pull_request"}
        /\ \A i \in 1..Len(commits) :
              /\ commits[i].workflow_status =
                    IF wfLog.fallback = "ok" THEN StatusFallback ELSE StatusSkipped
              /\ commits[i].workflow_status # StatusCopied
        /\ pr.created =>
              /\ pr.workflow_message.text =
                    IF wfLog.fallback = "ok" THEN PrFallback ELSE PrSkipped
              /\ pr.workflow_message.text # PrCopied

\* A run whose primary copy failed and whose fallback copy succeeded, which went
\* on to commit, push and create the pull request.
C10_Witness ==
    /\ wfLog = [primary |-> "failed", fallback |-> "ok"]
    /\ tpc = "done" /\ exitCode = 0
    /\ Len(commits) = 1 /\ commits[1].workflow_status = StatusFallback
    /\ pushes # <<>>
    /\ pr.created /\ pr.workflow_message.text = PrFallback

(***************************************************************************)
(*            TENANT PROVISIONER: CLAIMS C11, C12, C19, C20                *)
(***************************************************************************)

AllFailed(attempts) == \A i \in 1..Len(attempts) : ~attempts[i].ok

\* C11: the pull request is tried with the plain branch name first; with the
\* owner-qualified head only after that failed; the branch reference is created
\* through the review service only after both failed, and a third and last
\* attempt, with the plain name, follows only its creation.  No attempt follows
\* a success, there are at most three, and when every attempt or the creation
\* of the reference has failed the process has exited with a non-zero status
\* and no pull request.
C11_PullRequestChain ==
    /\ Len(prAttempts) <= 3
    /\ \A i \in 1..Len(prAttempts) : i < Len(prAttempts) => ~prAttempts[i].ok
    /\ Len(prAttempts) >= 1 =>
          prAttempts[1].head = [owner |-> "", branch |-> BranchName(self)]
    /\ Len(prAttempts) >= 2 =>
          prAttempts[2].head = [owner |-> "owner", branch |-> BranchName(self)]
    /\ gitRef # "none" => Len(prAttempts) >= 2 /\ ~prAttempts[1].ok /\ ~prAttempts[2].ok
    /\ Len(prAttempts) = 3 =>
          /\ gitRef = "created"
          /\ prAttempts[3].head = [owner |-> "", branch |-> BranchName(self)]
    /\ pr.created <=> (prAttempts # <<>> /\ prAttempts[Len(prAttempts)].ok)
    /\ pr.created => pr.head = prAttempts[Len(prAttempts)].head
    /\ tpc = "done" <=> pr.created
    /\ (gitRef = "failed" \/ (Len(prAttempts) = 3 /\ AllFailed(prAttempts))) =>
          tpc = "exit" /\ exitCode # 0 /\ exitAt = "create_pull_request" /\ ~pr.created

\* A run whose first two attempts failed, which created the branch reference
\* and whose third attempt made the pull request.
C11_Witness ==
    /\ Len(prAttempts) = 3
    /\ ~prAttempts[1].ok /\ ~prAttempts[2].ok /\ prAttempts[3].ok
    /\ gitRef = "created"
    /\ pr.created /\ tpc = "done" /\ exitCode = 0

C19_PullRequestOnlyAfterGoodPush ==
    prAttempts # <<>> => \E i \in 1..Len(pushes) : pushes[i].result = "ok"

\* C20: when the recorded outcome is "fallback" or skipped, no workflow file of
\* this run is in .github/workflows, and no commit of this run holds one.
C20_NoPrimaryFilesUnlessCopied ==
    self.workflows_copied # "True" =>
        /\ workflowsDir = NoFiles
        /\ \A i \in 1..Len(commits) : commits[i].workflow_files = {}

(***************************************************************************)
(*                ONBOARDING CLEANUP: CLAIMS C13 - C18                     *)
(***************************************************************************)

\* The file was in the working tree after the checkout.
FileExisted == checkedOut # "none" /\ cenv.hasFile
\* This run removed the file from the working tree.
FileRemoved == FileExisted /\ ~fileOnDisk
\* The run has exited with the given status.
Ended(code) == cpc = "exit" /\ cexit = code
\* A commit that removes the file exists and a push of the branch succeeded.
CommittedAndPushed ==
    /\ \E i \in 1..Len(ccommits) : ccommits[i].removes_file
    /\ \E i \in 1..Len(cpushes) : cpushes[i].result = "ok"

\* C13: once the branch is checked out and its tree lacks the onboarding file,
\* the run makes no commit and no push, and it ends only with status 0.
C13_AbsentFileIsSuccess ==
    (checkedOut # "none" /\ ~cenv.hasFile) =>
        /\ ccommits = <<>>
        /\ cpushes = <<>>
        /\ cpc \in {"delete", "comment", "exit"}
        /\ cpc = "exit" => cexit = 0

\* A finished run on a checked-out branch without the file.
C13_Witness ==
    checkedOut = "local" /\ ~cenv.hasFile /\ file_deleted = "False" /\ Ended(0)

C15_CommentNeverFailsRun ==
    /\ comment # "none" => Ended(0)
    /\ Ended(0) => comment \in {"posted", "no_client", "no_pr", "error"}
    /\ Ended(1) => comment = "none"

\* A run that deleted the file, whose comment step raised, and that ended with
\* status 0.
C15_Witness == file_deleted = "True" /\ comment = "error" /\ Ended(0)

\* C16: a branch that exists locally is checked out as it is and no tracking
\* branch is created for it; when the branch exists neither locally nor on the
\* remote the run ends at the existence check with status 1, without checkout,
\* deletion, commit, push or comment.
C16_BranchResolution ==
    /\ trackingCreated => ~cenv.local
    /\ checkedOut = "tracking" => (trackingCreated /\ cenv.remote)
    /\ (cenv.local /\ checkedOut # "none") => checkedOut = "local"
    /\ (~cenv.local /\ ~cenv.remote) =>
          /\ cpc \in {"init", "check_branch", "exit"}
          /\ cpc = "exit" => cexit = 1
          /\ checkedOut = "none" /\ ~trackingCreated
          /\ file_deleted = "unset" /\ ~staged
          /\ ccommits = <<>> /\ cpushes = <<>>
          /\ comment = "none" /\ comments = <<>>

\* A run on a branch that exists nowhere, ended with status 1.
C16_Witness ==
    cenv.validRepo /\ ~cenv.local /\ ~cenv.remote /\ cself # NoCleanup /\ Ended(1)

\* C17: in a run that ends with status 0 and in which the file existed after
\* the checkout, or was removed from the working tree, a commit removing it was
\* created and pushed.
C17_SuccessMeansCommitted ==
    (Ended(0) /\ (FileExisted \/ FileRemoved)) => CommittedAndPushed

\* C18: a comment saying that the file was deleted and the cleanup committed is
\* posted only in a run that deleted the file, committed and pushed.
C18_CommentOnlyAfterDeletion ==
    (\E i \in 1..Len(comments) : comments[i].deleted /\ comments[i].committed) =>
        /\ file_deleted = "True"
        /\ FileRemoved
        /\ CommittedAndPushed

====
